---- MODULE Spec2Model ----
(***************************************************************************)
(* FlashyCard: the text pipeline of lib/text-utils (normalizeCardText,     *)
(* cleanAIGeneratedText, parseAndNormalizeFlashcards, removeDuplicateCards)*)
(* as it is called by the generation actions of actions/ai-actions.ts.     *)
(*                                                                         *)
(* Strings are TLA+ strings over ASCII; a character is a string of         *)
(* length 1.  Characters outside ASCII that the source names (zero-width   *)
(* characters, bullet glyphs, currency signs) are outside the modelled     *)
(* alphabet.                                                               *)
(***************************************************************************)
EXTENDS Integers, Sequences, FiniteSets, TLC

VARIABLES
    pc,           \* position of the caller: which call has returned
    aiResponse,   \* the text handed to parseAndNormalizeFlashcards
    trace,        \* per line, the locals of the loop body of the parser
    parsedCards,  \* the list handed to removeDuplicateCards
    uniqueCards,  \* the list removeDuplicateCards returned
    rerunCards,   \* the cards of a second run on the joined output
    text,         \* the argument of normalizeCardText
    normalized,   \* normalizeCardText(text)
    renormalized, \* normalizeCardText(normalizeCardText(text))
    prefix,       \* an enumeration prefix written before the response
    prefixedCards,\* the cards parsed from prefix followed by the response
    lineCards,    \* per line of the response, the cards of that line alone
    generator,    \* the generation action that runs
    cardCount,    \* the number of cards the user asked for
    result,       \* what the generation action returned
    decksTable,   \* the rows of the table decks
    cardsTable,   \* the rows of the table cards
    returned,     \* the last call of a deck query and what it returned
    query,        \* the deck query that has verified the owner and not yet read the cards
    serials,      \* the last id given out by each of the two tables
    sessionUserId,\* userId of auth() in the generation action
    description,  \* the description the generation action is called with
    credentials,  \* whether the environment holds the Cptain client id and secret
    authToken,    \* the token getCptainAuthToken returned
    requests,     \* the requests sent so far, by the endpoint they went to
    timer,        \* the abort timer of the generation action
    attempt,      \* the request body format of the attempt in flight
    lastError     \* lastError of the loop over the request body formats

\* the variables of the line experiments, of the generation actions and of
\* the database
lineVars == <<prefix, prefixedCards, lineCards>>
reqVars == <<sessionUserId, description, credentials, authToken, requests, timer, attempt, lastError>>
genVars == <<generator, cardCount, result, reqVars>>
dbVars == <<decksTable, cardsTable, returned, query, serials>>

vars == <<pc, aiResponse, trace, parsedCards, uniqueCards, rerunCards,
          text, normalized, renormalized, lineVars, genVars, dbVars>>

\* the value of a variable that holds nothing yet
None == "none"

\* no line experiment has run, no generation action has returned, the
\* database is empty
NoLines == prefix = "" /\ prefixedCards = <<>> /\ lineCards = <<>>
\* no generation action has been called
NoRequest ==
    /\ sessionUserId = None
    /\ description = ""
    /\ credentials = FALSE
    /\ authToken = None
    /\ requests = <<>>
    /\ timer = None
    /\ attempt = 0
    /\ lastError = ""

NoGeneration == generator = None /\ cardCount = 0 /\ result = None /\ NoRequest
\* no deck query has been called
NoCall == [op |-> None, userId |-> None, deckId |-> 0, isNull |-> TRUE, deck |-> {}, cards |-> {}]

\* no deck query is between its two reads
NoQuery == [op |-> None, userId |-> None, deckId |-> 0, deck |-> {}]

NoDatabase ==
    /\ decksTable = {}
    /\ cardsTable = {}
    /\ returned = NoCall
    /\ query = NoQuery
    /\ serials = [decks |-> 0, cards |-> 0]

-----------------------------------------------------------------------------
(* Strings *)

CharAt(s, i) == SubSeq(s, i, i)

UpperChars == "ABCDEFGHIJKLMNOPQRSTUVWXYZ"
LowerChars == "abcdefghijklmnopqrstuvwxyz"
DigitChars == "0123456789"

CharsOf(s) == {CharAt(s, i) : i \in 1..Len(s)}

UpperSet == CharsOf(UpperChars)
LowerSet == CharsOf(LowerChars)
DigitSet == CharsOf(DigitChars)

LowerOf == [c \in UpperSet |->
              CharAt(LowerChars, CHOOSE i \in 1..Len(UpperChars) : CharAt(UpperChars, i) = c)]

\* the strings pieces[lo], ..., pieces[hi] one after the other
RECURSIVE Concat(_, _, _)
Concat(pieces, lo, hi) ==
    IF lo > hi THEN ""
    ELSE IF lo = hi THEN pieces[lo]
    ELSE Concat(pieces, lo, (lo + hi) \div 2) \o Concat(pieces, (lo + hi) \div 2 + 1, hi)

\* String.prototype.toLowerCase on ASCII
toLowerCase(s) ==
    Concat([i \in 1..Len(s) |->
               IF CharAt(s, i) \in UpperSet THEN LowerOf[CharAt(s, i)] ELSE CharAt(s, i)],
           1, Len(s))

\* the strings of at most n characters of S
RECURSIVE StringsUpTo(_, _)
StringsUpTo(S, n) ==
    IF n = 0 THEN {""}
    ELSE LET shorter == StringsUpTo(S, n - 1)
         IN  shorter \cup {q \o c : q \in {r \in shorter : Len(r) = n - 1}, c \in S}

\* the sequences of at most n elements of S
RECURSIVE SeqsUpTo(_, _)
SeqsUpTo(S, n) ==
    IF n = 0 THEN {<<>>}
    ELSE LET shorter == SeqsUpTo(S, n - 1)
         IN  shorter \cup {Append(q, e) : q \in {r \in shorter : Len(r) = n - 1}, e \in S}

-----------------------------------------------------------------------------
(* Character classes of the regular expressions, within ASCII *)

\* \s
Whitespace == {" ", "\t", "\n", "\r", "\f"}

\* [\x00-\x1F\x7F-\x9F]: the control characters a TLA+ string can hold
ControlChars == {"\t", "\n", "\r", "\f"}

\* [\u200B-\u200D\uFEFF]: none of them is an ASCII character
ZeroWidthChars == {}

\* ["']
QuoteChars == {"\"", "'"}

\* the punctuation of the allow-list .,!?;:()\-'"/&%$+*=@#
AllowedPunct == CharsOf(".,!?;:()-'\"/&%$+*=@#")

\* [\p{L}\p{N}\s.,!?;:()\-'"/&%$+*=@#]
AllowedChars == UpperSet \cup LowerSet \cup DigitSet \cup Whitespace \cup AllowedPunct

\* variant: the asterisk and the hash left out of the class
MarkdownCharsMut == {"_", "~"}

\* [*_~#] and the backquote, which a TLA+ string cannot hold
MarkdownChars == {"*", "_", "~", "#"}

\* the first index j >= i of s whose character is not in S, Len(s) + 1 if none
SkipWhile(s, i, S) ==
    IF i > Len(s) THEN i
    ELSE CHOOSE j \in i..(Len(s) + 1) :
             /\ j > Len(s) \/ CharAt(s, j) \notin S
             /\ \A k \in i..(j - 1) : CharAt(s, k) \in S

\* the first index j >= i of s whose character is in S, Len(s) + 1 if none
SkipUntil(s, i, S) ==
    IF i > Len(s) THEN i
    ELSE CHOOSE j \in i..(Len(s) + 1) :
             /\ j > Len(s) \/ CharAt(s, j) \in S
             /\ \A k \in i..(j - 1) : CharAt(s, k) \notin S

\* the last index j <= i of s whose character is not in S, 0 if none
SkipBackWhile(s, i, S) ==
    IF i < 1 THEN 0
    ELSE CHOOSE j \in 0..i :
             /\ j = 0 \/ CharAt(s, j) \notin S
             /\ \A k \in (j + 1)..i : CharAt(s, k) \in S

\* replace(/[S]/g, '')
RemoveChars(s, S) ==
    Concat([i \in 1..Len(s) |-> IF CharAt(s, i) \in S THEN "" ELSE CharAt(s, i)],
           1, Len(s))

\* replace(/[^S]/g, '')
KeepChars(s, S) ==
    Concat([i \in 1..Len(s) |-> IF CharAt(s, i) \in S THEN CharAt(s, i) ELSE ""],
           1, Len(s))

\* replace(/\s*\([^)]*\)/g, ''), scanning from index i: a match at i is a run
\* of whitespace, an opening parenthesis and everything up to the first
\* closing parenthesis after it
\* the index of the closing parenthesis of the match at index i, 0 if none
ParensMatchEnd(s, i) ==
    LET open == SkipWhile(s, i, Whitespace)
    IN  IF open <= Len(s) /\ CharAt(s, open) = "(" /\ SkipUntil(s, open + 1, {")"}) <= Len(s)
        THEN SkipUntil(s, open + 1, {")"})
        ELSE 0

\* the text before the first match at or after index i is kept, the match is
\* dropped and the scan goes on after it
RECURSIVE RemoveParensFrom(_, _)
RemoveParensFrom(s, i) ==
    IF \A p \in i..Len(s) : ParensMatchEnd(s, p) = 0 THEN SubSeq(s, i, Len(s))
    ELSE LET first == CHOOSE p \in i..Len(s) :
                          /\ ParensMatchEnd(s, p) > 0
                          /\ \A q \in i..(p - 1) : ParensMatchEnd(s, q) = 0
         IN  SubSeq(s, i, first - 1) \o RemoveParensFrom(s, ParensMatchEnd(s, first) + 1)

RemoveParens(s) == RemoveParensFrom(s, 1)

\* variant: every quote is removed, not only the runs at the two ends
StripQuotesMut(s) == RemoveChars(s, QuoteChars)

\* replace(/^["']+|["']+$/g, ''): the run of quotes at the start of the
\* string and the run of quotes at its end
StripQuotes(s) ==
    LET rest == SubSeq(s, SkipWhile(s, 1, QuoteChars), Len(s))
    IN  SubSeq(rest, 1, SkipBackWhile(rest, Len(rest), QuoteChars))

\* replace(/\s+/g, ' ')
\* the first character of a run of whitespace becomes a space, the others
\* of the run go
CollapseWhitespace(s) ==
    Concat([i \in 1..Len(s) |->
               IF CharAt(s, i) \notin Whitespace THEN CharAt(s, i)
               ELSE IF i > 1 /\ CharAt(s, i - 1) \in Whitespace THEN ""
               ELSE " "],
           1, Len(s))

\* String.prototype.trim
Trim(s) ==
    LET rest == SubSeq(s, SkipWhile(s, 1, Whitespace), Len(s))
    IN  SubSeq(rest, 1, SkipBackWhile(rest, Len(rest), Whitespace))

-----------------------------------------------------------------------------
(* normalizeCardText *)

normalizeCardText(t) ==
    IF t = "" THEN ""
    ELSE LET lower       == toLowerCase(t)
             noControl   == RemoveChars(lower, ControlChars)
             noZeroWidth == RemoveChars(noControl, ZeroWidthChars)
             noParens    == RemoveParens(noZeroWidth)
             noQuotes    == StripQuotes(noParens)
             allowed     == KeepChars(noQuotes, AllowedChars)
             collapsed   == CollapseWhitespace(allowed)
         IN  Trim(collapsed)

-----------------------------------------------------------------------------
(* cleanAIGeneratedText *)

\* the characters after which ^ matches under the m flag
LineTerminators == {"\n", "\r"}

\* [-...]: the hyphen; the bullet glyphs are not ASCII characters
BulletChars == {"-"}

\* ^ at index i under the m flag
AtLineStart(s, i) == i = 1 \/ CharAt(s, i - 1) \in LineTerminators

\* [\s]*[-...]\s* matched at index i: the index after the match, 0 if none
BulletMatchEnd(s, i) ==
    LET j == SkipWhile(s, i, Whitespace)
    IN  IF j <= Len(s) /\ CharAt(s, j) \in BulletChars
        THEN SkipWhile(s, j + 1, Whitespace)
        ELSE 0

\* \s*\d+[\.)]\s* matched at index i: the index after the match, 0 if none
NumberMatchEnd(s, i) ==
    LET j == SkipWhile(s, i, Whitespace)
        k == SkipWhile(s, j, DigitSet)
    IN  IF k > j /\ k <= Len(s) /\ CharAt(s, k) \in {".", ")"}
        THEN SkipWhile(s, k + 1, Whitespace)
        ELSE 0

\* \s*[a-z][\.)]\s* matched at index i: the index after the match, 0 if none
LetterMatchEnd(s, i) ==
    LET j == SkipWhile(s, i, Whitespace)
    IN  IF j + 1 <= Len(s) /\ CharAt(s, j) \in LowerSet /\ CharAt(s, j + 1) \in {".", ")"}
        THEN SkipWhile(s, j + 2, Whitespace)
        ELSE 0

\* the index after the match at index i of the pattern of that name, 0 if none
MatchEnd(pattern, s, i) ==
    CASE pattern = "bullet" -> BulletMatchEnd(s, i)
      [] pattern = "number" -> NumberMatchEnd(s, i)
      [] pattern = "letter" -> LetterMatchEnd(s, i)

\* replace(/^.../gm, '') of the pattern of that name, from index i on
\* the pattern of that name matches at index i, a start of line
MatchesAt(pattern, s, i) == AtLineStart(s, i) /\ MatchEnd(pattern, s, i) > 0

\* the text before the first match at or after index i is kept, the match
\* is dropped and the scan goes on after it
RECURSIVE RemoveAtLineStarts(_, _, _)
RemoveAtLineStarts(s, i, pattern) ==
    IF \A p \in i..Len(s) : ~MatchesAt(pattern, s, p) THEN SubSeq(s, i, Len(s))
    ELSE LET first == CHOOSE p \in i..Len(s) :
                          /\ MatchesAt(pattern, s, p)
                          /\ \A q \in i..(p - 1) : ~MatchesAt(pattern, s, q)
         IN  SubSeq(s, i, first - 1)
             \o RemoveAtLineStarts(s, MatchEnd(pattern, s, first), pattern)

cleanAIGeneratedText(t) ==
    IF t = "" THEN ""
    ELSE LET noMarkdown == RemoveChars(t, MarkdownChars)
             noBullets  == RemoveAtLineStarts(noMarkdown, 1, "bullet")
             noNumbers  == RemoveAtLineStarts(noBullets, 1, "number")
             noLetters  == RemoveAtLineStarts(noNumbers, 1, "letter")
             noQuotes   == StripQuotes(noLetters)
             collapsed  == CollapseWhitespace(noQuotes)
         IN  Trim(collapsed)

-----------------------------------------------------------------------------
(* parseAndNormalizeFlashcards *)

\* { front, back }
Card(f, b) == [front |-> f, back |-> b]

\* String.prototype.includes
Includes(s, sub) ==
    \E i \in 1..(Len(s) - Len(sub) + 1) : SubSeq(s, i, i + Len(sub) - 1) = sub

\* String.prototype.startsWith
StartsWith(s, pre) == Len(s) >= Len(pre) /\ SubSeq(s, 1, Len(pre)) = pre

\* variant: String.prototype.lastIndexOf
indexOfMut(s, sub) ==
    CHOOSE i \in 1..(Len(s) - Len(sub) + 1) :
        /\ SubSeq(s, i, i + Len(sub) - 1) = sub
        /\ \A j \in (i + 1)..(Len(s) - Len(sub) + 1) : SubSeq(s, j, j + Len(sub) - 1) # sub

\* String.prototype.indexOf of a substring that occurs, counted from 1
indexOf(s, sub) ==
    CHOOSE i \in 1..(Len(s) - Len(sub) + 1) :
        /\ SubSeq(s, i, i + Len(sub) - 1) = sub
        /\ \A j \in 1..(i - 1) : SubSeq(s, j, j + Len(sub) - 1) # sub

\* String.prototype.split('\n'), from index i on: the piece up to the next
\* line feed, then the pieces after it
RECURSIVE SplitLinesFrom(_, _)
SplitLinesFrom(s, i) ==
    IF SkipUntil(s, i, {"\n"}) > Len(s) THEN <<SubSeq(s, i, Len(s))>>
    ELSE <<SubSeq(s, i, SkipUntil(s, i, {"\n"}) - 1)>>
         \o SplitLinesFrom(s, SkipUntil(s, i, {"\n"}) + 1)

SplitLines(s) == SplitLinesFrom(s, 1)

\* trimmedLine.length < 3
MinLineLength == 3

\* trimmedLine.length > 100
MaxLineLength == 100

SkipIncludes ==
    { "flashcard", "here are", "here is", "vocabulary", "each with",
      "different dutch", "different english", "format:", "examples:",
      "perfect examples", "must create", "copy this", "each line", "unique cards" }

SkipStartsWith ==
    { "okay", "sure", "certainly", "of course", "generated", "term |",
      "translation |", "explanation |", "front |", "back |", "leftside |",
      "rightside |", "no numbering", "name:", "description:", "rules:" }

SkipEquals == { "cards:", "cards", "output", "topic:" }

\* /^[\d\s,]+$/.test(trimmedLine)
OnlyNumbers(trimmedLine) ==
    /\ trimmedLine # ""
    /\ \A i \in 1..Len(trimmedLine) :
           CharAt(trimmedLine, i) \in DigitSet \cup Whitespace \cup {","}

\* variant: a line of exactly 100 characters counts as too long
SkipLineMut(trimmedLine) ==
    LET lowerLine == toLowerCase(trimmedLine)
    IN  \/ \E p \in SkipIncludes : Includes(lowerLine, p)
        \/ \E p \in SkipStartsWith : StartsWith(lowerLine, p)
        \/ lowerLine \in SkipEquals
        \/ OnlyNumbers(trimmedLine)
        \/ Len(trimmedLine) >= MaxLineLength

\* the condition of the if that skips header, meta, numeric and long lines
SkipLine(trimmedLine) ==
    LET lowerLine == toLowerCase(trimmedLine)
    IN  \/ \E p \in SkipIncludes : Includes(lowerLine, p)
        \/ \E p \in SkipStartsWith : StartsWith(lowerLine, p)
        \/ lowerLine \in SkipEquals
        \/ OnlyNumbers(trimmedLine)
        \/ Len(trimmedLine) > MaxLineLength

\* variant: the colon tried before the pipe
separatorsMut == << ":", "|", " | ", " - ", "-", "\t", "=", " / " >>

\* the separators, in the order they are tried
separators == << "|", " | ", ":", " - ", "-", "\t", "=", " / " >>

NoSplit == [sep |-> "", splitIndex |-> 0, front |-> "", back |-> ""]

\* the split of trimmedLine at the first occurrence of sep
SplitAt(trimmedLine, sep) ==
    LET splitIndex == indexOf(trimmedLine, sep)
    IN  [sep |-> sep,
         splitIndex |-> splitIndex,
         front |-> Trim(SubSeq(trimmedLine, 1, splitIndex - 1)),
         back |-> Trim(SubSeq(trimmedLine, splitIndex + Len(sep), Len(trimmedLine)))]

\* if (front && back && front !== back)
ValidParts(front, back) == front # "" /\ back # "" /\ front # back

\* the loop over the separators, from the k-th on
RECURSIVE TrySeparators(_, _)
TrySeparators(trimmedLine, k) ==
    IF k > Len(separators) THEN NoSplit
    ELSE IF Includes(trimmedLine, separators[k])
              /\ ValidParts(SplitAt(trimmedLine, separators[k]).front,
                            SplitAt(trimmedLine, separators[k]).back)
         THEN SplitAt(trimmedLine, separators[k])
         ELSE TrySeparators(trimmedLine, k + 1)

metaWords ==
    { "woorden", "woord", "tekst", "text", "word", "words",
      "translation", "vertaling", "vertalingen", "english", "dutch",
      "term", "definition", "front", "back",
      "leftside", "rightside", "example", "format",
      "native", "language", "taal" }

\* variant: a side that contains a meta-word counts as one
isMetaWordMut(front, back) ==
    \E word \in metaWords :
        Includes(toLowerCase(front), word) \/ Includes(toLowerCase(back), word)

\* const isMetaWord = metaWords.includes(frontLower) || ... some(word => ...)
isMetaWord(front, back) ==
    LET frontLower == Trim(toLowerCase(front))
        backLower == Trim(toLowerCase(back))
    IN  \/ frontLower \in metaWords
        \/ backLower \in metaWords
        \/ \E word \in metaWords : frontLower = word \/ backLower = word

\* variant: the test front !== back left out
AcceptCardMut(front, back) == front # "" /\ back # "" /\ ~isMetaWord(front, back)

\* if (front && back && front !== back && !isMetaWord)
AcceptCard(front, back) ==
    front # "" /\ back # "" /\ front # back /\ ~isMetaWord(front, back)

\* the rest of the iteration once both sides are normalized: its locals, and
\* whether it pushed a card
PushOrDrop(line, trimmedLine, skipped, parts, front, back) ==
    [line |-> line,
     trimmedLine |-> trimmedLine,
     skipped |-> skipped,
     sep |-> parts.sep,
     splitIndex |-> parts.splitIndex,
     parts |-> IF parts.sep # "" THEN <<parts.front, parts.back>> ELSE <<>>,
     front |-> front,
     back |-> back,
     pushed |-> parts.sep # "" /\ AcceptCard(front, back)]

\* if (parts.length === 2): both sides are normalized
NormalizeParts(line, trimmedLine, skipped, parts) ==
    PushOrDrop(line, trimmedLine, skipped, parts,
               IF parts.sep # "" THEN normalizeCardText(parts.front) ELSE "",
               IF parts.sep # "" THEN normalizeCardText(parts.back) ELSE "")

\* a line that is not skipped goes through the loop over the separators
SplitLine(line, trimmedLine, skipped) ==
    NormalizeParts(line, trimmedLine, skipped,
                   IF skipped THEN NoSplit ELSE TrySeparators(trimmedLine, 1))

\* the three tests that end the iteration with continue
ClassifyLine(line, trimmedLine) ==
    SplitLine(line, trimmedLine,
              \/ trimmedLine = ""
              \/ Len(trimmedLine) < MinLineLength
              \/ SkipLine(trimmedLine))

\* one iteration of the loop over the lines
ParseLine(line) == ClassifyLine(line, cleanAIGeneratedText(line))

\* the locals of every iteration
ParseTrace(response) ==
    IF response = "" THEN <<>>
    ELSE LET lines == SplitLines(response)
         IN  [i \in 1..Len(lines) |-> ParseLine(lines[i])]

\* variant: the loop ends at the first line that pushes no card
RECURSIVE PushedCardsMut(_, _)
PushedCardsMut(tr, i) ==
    IF i > Len(tr) \/ ~tr[i].pushed THEN <<>>
    ELSE <<Card(tr[i].front, tr[i].back)>> \o PushedCardsMut(tr, i + 1)

\* the cards pushed by the iterations from the i-th on, in order
RECURSIVE PushedCards(_, _)
PushedCards(tr, i) ==
    IF i > Len(tr) THEN <<>>
    ELSE (IF tr[i].pushed THEN <<Card(tr[i].front, tr[i].back)>> ELSE <<>>)
         \o PushedCards(tr, i + 1)

parseAndNormalizeFlashcards(response) == PushedCards(ParseTrace(response), 1)

-----------------------------------------------------------------------------
(* removeDuplicateCards *)

\* the ceiling of the test backCount > 2
MaxBackCount == 2

\* variant: the backs counted without lowercasing them
backCountsMut(cards, backKey) ==
    Cardinality({i \in 1..Len(cards) : cards[i].back = backKey})

\* first pass: backCounts.get(backKey) after the loop over all cards
backCounts(cards, backKey) ==
    Cardinality({i \in 1..Len(cards) : toLowerCase(cards[i].back) = backKey})

\* the key of the seen-set
CardKey(card) == toLowerCase(card.front) \o "|" \o toLowerCase(card.back)

\* variant: no ceiling on the count of a back
BackRepeatedMut(backCount) == FALSE

\* if (backCount > 2) continue
BackRepeated(backCount) == backCount > MaxBackCount

\* variant: the seen-set is never consulted
SeenBeforeMut(seen, key) == FALSE

\* if (seen.has(key)) continue
SeenBefore(seen, key) == key \in seen

\* variant: the lowercased card is pushed instead of the element
KeptCardMut(card) == Card(toLowerCase(card.front), toLowerCase(card.back))

\* unique.push(card): the element itself
KeptCard(card) == card

\* second pass, from index i on, with the seen-set and the list built so far
RECURSIVE SecondPass(_, _, _, _)
SecondPass(cards, i, seen, unique) ==
    IF i > Len(cards) THEN unique
    ELSE LET card == cards[i]
             key == CardKey(card)
             backCount == backCounts(cards, toLowerCase(card.back))
         IN  IF SeenBefore(seen, key) THEN SecondPass(cards, i + 1, seen, unique)
             ELSE IF BackRepeated(backCount) THEN SecondPass(cards, i + 1, seen, unique)
             ELSE SecondPass(cards, i + 1, seen \cup {key}, Append(unique, KeptCard(card)))

removeDuplicateCards(cards) == SecondPass(cards, 1, {}, <<>>)

-----------------------------------------------------------------------------
(* The caller of removeDuplicateCards: a list of structured cards, as the  *)
(* structured-cards branch of generateCardsWithCptainAI builds it, is      *)
(* handed to removeDuplicateCards.                                         *)

MaxCards == 4

\* the cards the lists are drawn from: a pair in two spellings, one back under
\* four fronts, and two different cards whose keys are the same string
DedupCards ==
    { Card("a", "x"), Card("A", "X"), Card("b", "x"), Card("c", "X"),
      Card("a|x", "x"), Card("a", "x|x"), Card("b", "y") }

InitDedup ==
    /\ pc = "parsed"
    /\ parsedCards \in SeqsUpTo(DedupCards, MaxCards)
    /\ uniqueCards = <<>>
    /\ aiResponse = ""
    /\ trace = <<>>
    /\ rerunCards = <<>>
    /\ text = ""
    /\ normalized = ""
    /\ renormalized = ""
    /\ NoLines /\ NoGeneration /\ NoDatabase

\* const uniqueCards = removeDuplicateCards(parsedCards)
Dedup ==
    /\ pc = "parsed"
    /\ uniqueCards' = removeDuplicateCards(parsedCards)
    /\ pc' = "deduped"
    /\ UNCHANGED <<aiResponse, trace, parsedCards, rerunCards, text, normalized, renormalized,
                   lineVars, genVars, dbVars>>

NextDedup == Dedup

SpecDedup == InitDedup /\ [][NextDedup]_vars

-----------------------------------------------------------------------------
(* The caller of the pipeline: a response text is parsed, the parsed cards *)
(* are deduplicated, and the surviving cards, written one per line as      *)
(* 'front | back', are run through the two steps again.                    *)

MaxResponseLen == 4

ParseChars == {"a", "A", "b", "|", ":", "-", " "}

\* the lines of the two-line responses
ShortLines == {"a|b", "b|a", "a:b", "A|B", "a|a", "b-c"}

Responses ==
    StringsUpTo(ParseChars, MaxResponseLen)
        \cup {l1 \o "\n" \o l2 : l1, l2 \in ShortLines}

\* the cards written one per line as 'front | back'
RECURSIVE JoinCards(_)
JoinCards(cards) ==
    IF cards = <<>> THEN ""
    ELSE Head(cards).front \o " | " \o Head(cards).back
         \o (IF Len(cards) > 1 THEN "\n" ELSE "") \o JoinCards(Tail(cards))

InitParse ==
    /\ pc = "response"
    /\ aiResponse \in Responses
    /\ trace = <<>>
    /\ parsedCards = <<>>
    /\ uniqueCards = <<>>
    /\ rerunCards = <<>>
    /\ text = ""
    /\ normalized = ""
    /\ renormalized = ""
    /\ NoLines /\ NoGeneration /\ NoDatabase

\* variant: the call throws on an empty response and nothing is returned
ParseMut ==
    /\ pc = "response"
    /\ trace' = ParseTrace(aiResponse)
    /\ parsedCards' = PushedCards(trace', 1)
    /\ pc' = IF aiResponse = "" THEN "threw" ELSE "parsed"
    /\ UNCHANGED <<aiResponse, uniqueCards, rerunCards, text, normalized, renormalized,
                   lineVars, genVars, dbVars>>

\* let parsedCards = parseAndNormalizeFlashcards(generatedText)
Parse ==
    /\ pc = "response"
    /\ trace' = ParseTrace(aiResponse)
    /\ parsedCards' = PushedCards(trace', 1)
    /\ pc' = "parsed"
    /\ UNCHANGED <<aiResponse, uniqueCards, rerunCards, text, normalized, renormalized,
                   lineVars, genVars, dbVars>>

\* the two steps again, on the surviving cards joined into one text
Rerun ==
    /\ pc = "deduped"
    /\ rerunCards' = removeDuplicateCards(parseAndNormalizeFlashcards(JoinCards(uniqueCards)))
    /\ pc' = "rerun"
    /\ UNCHANGED <<aiResponse, trace, parsedCards, uniqueCards, text, normalized, renormalized,
                   lineVars, genVars, dbVars>>

NextParse == Parse \/ Dedup \/ Rerun

SpecParse == InitParse /\ [][NextParse]_vars

-----------------------------------------------------------------------------
(* The same caller with responses of one line made of a word, one of the   *)
(* separators and another word.                                            *)

PlainWords == {"apple", "appel", "bread", "kaas"}

SeparatorLines ==
    {f \o separators[k] \o b : f \in PlainWords, b \in PlainWords, k \in 1..Len(separators)}

InitSeparators ==
    /\ pc = "response"
    /\ aiResponse \in SeparatorLines
    /\ trace = <<>>
    /\ parsedCards = <<>>
    /\ uniqueCards = <<>>
    /\ rerunCards = <<>>
    /\ text = ""
    /\ normalized = ""
    /\ renormalized = ""
    /\ NoLines /\ NoGeneration /\ NoDatabase

NextSeparators == Parse \/ Dedup

SpecSeparators == InitSeparators /\ [][NextSeparators]_vars

-----------------------------------------------------------------------------
(* Properties of removeDuplicateCards *)

SameBack(c, d) == toLowerCase(c.back) = toLowerCase(d.back)

SamePair(c, d) ==
    /\ toLowerCase(c.front) = toLowerCase(d.front)
    /\ toLowerCase(c.back) = toLowerCase(d.back)

\* s is a subsequence of t: s is t with some elements left out
RECURSIVE IsSubseq(_, _)
IsSubseq(s, t) ==
    IF s = <<>> THEN TRUE
    ELSE IF t = <<>> THEN FALSE
    ELSE IF Head(s) = Head(t) THEN IsSubseq(Tail(s), Tail(t))
    ELSE IsSubseq(s, Tail(t))

\* the indices of the input cards whose back is the back of card c
WithBackOf(cards, c) == {i \in 1..Len(cards) : SameBack(cards[i], c)}

\* the indices of the input cards that are the pair c
Occurrences(cards, c) == {i \in 1..Len(cards) : SamePair(cards[i], c)}

Survives(card) == \E k \in 1..Len(uniqueCards) : uniqueCards[k] = card

Min(S) == CHOOSE m \in S : \A n \in S : m <= n

\* C1: the list returned by removeDuplicateCards holds each back value,
\* compared case-insensitively, at most 2 times.
C1_BackAtMostTwice ==
    pc = "deduped" =>
        \A k \in 1..Len(uniqueCards) :
            Cardinality(WithBackOf(uniqueCards, uniqueCards[k])) <= 2

\* a back is kept twice, once as x and once as X, next to a card of another
\* back, and one of the 4 input cards was removed
C1_Witness ==
    /\ pc = "deduped"
    /\ Len(parsedCards) = 4
    /\ Len(uniqueCards) = 3
    /\ \E k, m \in 1..Len(uniqueCards) :
           uniqueCards[k].back = "x" /\ uniqueCards[m].back = "X"

\* one back value attached to 4 different fronts: the indices of the 4 pairs
FourFronts(I) ==
    /\ Cardinality(I) = 4
    /\ \A i, j \in I : i # j =>
           toLowerCase(parsedCards[i].front) # toLowerCase(parsedCards[j].front)

\* C2 as stated: of 4 pairs that attach one back to 4 different fronts, the
\* first two in input order are kept and the other two are removed.
C2_FirstTwoKept ==
    pc = "deduped" =>
        \A i \in 1..Len(parsedCards) :
            LET I == WithBackOf(parsedCards, parsedCards[i])
                first == Min(I)
                second == Min(I \ {first})
            IN  FourFronts(I) =>
                    \A j \in I : Survives(parsedCards[j]) <=> j \in {first, second}

\* C2 amended: of 4 pairs that attach one back to 4 different fronts, none is
\* kept: the output holds no card with that back.
C2_NoneKept ==
    pc = "deduped" =>
        \A i \in 1..Len(parsedCards) :
            LET I == WithBackOf(parsedCards, parsedCards[i])
            IN  FourFronts(I) =>
                    /\ \A j \in I : ~Survives(parsedCards[j])
                    /\ WithBackOf(uniqueCards, parsedCards[i]) = {}

C2_Witness ==
    /\ pc = "deduped"
    /\ \E i \in 1..Len(parsedCards) : FourFronts(WithBackOf(parsedCards, parsedCards[i]))
    /\ uniqueCards = <<>>

\* the pair at index i occurs exactly twice in the input, first at i
OccursTwiceFirstAt(i) ==
    LET O == Occurrences(parsedCards, parsedCards[i])
    IN  Cardinality(O) = 2 /\ i = Min(O)

\* the output holds the pair of input index i exactly once, and the cards
\* before and after it in the output come from before and after index i
OnceAtFirstPosition(i) ==
    LET K == Occurrences(uniqueCards, parsedCards[i])
    IN  /\ Cardinality(K) = 1
        /\ LET k == Min(K)
           IN  /\ IsSubseq(SubSeq(uniqueCards, 1, k - 1), SubSeq(parsedCards, 1, i - 1))
               /\ IsSubseq(SubSeq(uniqueCards, k + 1, Len(uniqueCards)),
                           SubSeq(parsedCards, i + 1, Len(parsedCards)))

C4_OnlyRemoves ==
    [][(pc = "parsed" /\ pc' = "deduped") =>
          /\ parsedCards' = parsedCards
          /\ IsSubseq(uniqueCards', parsedCards)]_vars

\* some cards were removed and cards with upper-case letters were kept
C4_Witness ==
    /\ pc = "deduped"
    /\ Len(uniqueCards) = 2
    /\ Len(parsedCards) = 4
    /\ \E k \in 1..2 : uniqueCards[k].front = "A" /\ uniqueCards[k].back = "X"

-----------------------------------------------------------------------------
(* A caller of normalizeCardText that normalizes a text and then normalizes *)
(* the result again.                                                        *)

MaxTextLen == 4

NormChars == {"a", "A", " ", "(", ")", "'", "|", "\t"}

\* the inputs of normTests
NormTestInputs == {"HELLO", "  spaced  ", "1. numbered", "special!!!"}

InitNorm ==
    /\ pc = "text"
    /\ text \in StringsUpTo(NormChars, MaxTextLen) \cup NormTestInputs
    /\ normalized = ""
    /\ renormalized = ""
    /\ aiResponse = ""
    /\ trace = <<>>
    /\ parsedCards = <<>>
    /\ uniqueCards = <<>>
    /\ rerunCards = <<>>
    /\ NoLines /\ NoGeneration /\ NoDatabase

Normalize ==
    /\ pc = "text"
    /\ normalized' = normalizeCardText(text)
    /\ pc' = "normalized"
    /\ UNCHANGED <<aiResponse, trace, parsedCards, uniqueCards, rerunCards, text, renormalized,
                   lineVars, genVars, dbVars>>

Renormalize ==
    /\ pc = "normalized"
    /\ renormalized' = normalizeCardText(normalized)
    /\ pc' = "renormalized"
    /\ UNCHANGED <<aiResponse, trace, parsedCards, uniqueCards, rerunCards, text, normalized,
                   lineVars, genVars, dbVars>>

NextNorm == Normalize \/ Renormalize

SpecNorm == InitNorm /\ [][NextNorm]_vars

-----------------------------------------------------------------------------
(* The parser on responses made of sample lines, as the test script runs   *)
(* it on its test cases: on the whole response, on every line of it alone  *)
(* and on the response with an enumeration prefix written before it.       *)

MaxLines == 2

\* the prefixes of the test case 'With numbering' and its two siblings
EnumerationPrefixes == {"1. ", "1) ", "a. "}

\* a plain pair, a numbered one, a bulleted one, one with markdown and
\* capitals, a header, a meta-word on the left and on the right, a meta-word
\* inside longer text, two lines without letters, and the empty line
SampleLines ==
    { "apple | appel",
      "1. apple | appel",
      "- bread | brood",
      "**Kaas** | Cheese",
      "Here are your flashcards:",
      "word | apple",
      "kaas | Word",
      "keyword : <sleutel>  woord",
      "12:30",
      "1, 2, 3",
      "" }

RECURSIVE JoinLines(_)
JoinLines(lines) ==
    IF lines = <<>> THEN ""
    ELSE Head(lines) \o (IF Len(lines) > 1 THEN "\n" ELSE "") \o JoinLines(Tail(lines))

LineResponses == {JoinLines(ls) : ls \in SeqsUpTo(SampleLines, MaxLines) \ {<<>>}}

InitLines ==
    /\ pc = "response"
    /\ aiResponse \in LineResponses
    /\ trace = <<>>
    /\ parsedCards = <<>>
    /\ uniqueCards = <<>>
    /\ rerunCards = <<>>
    /\ text = ""
    /\ normalized = ""
    /\ renormalized = ""
    /\ NoLines /\ NoGeneration /\ NoDatabase

\* the parser called on every line of the response alone
ParseLines ==
    /\ pc = "parsed"
    /\ lineCards' = [i \in 1..Len(SplitLines(aiResponse)) |->
                        parseAndNormalizeFlashcards(SplitLines(aiResponse)[i])]
    /\ pc' = "lines"
    /\ UNCHANGED <<aiResponse, trace, parsedCards, uniqueCards, rerunCards,
                   text, normalized, renormalized, prefix, prefixedCards,
                   genVars, dbVars>>

\* the parser called on the response with an enumeration prefix before it
ParsePrefixed ==
    /\ pc = "lines"
    /\ \E p \in EnumerationPrefixes :
           /\ prefix' = p
           /\ prefixedCards' = parseAndNormalizeFlashcards(p \o aiResponse)
    /\ pc' = "prefixed"
    /\ UNCHANGED <<aiResponse, trace, parsedCards, uniqueCards, rerunCards,
                   text, normalized, renormalized, lineCards, genVars, dbVars>>

NextLines == Parse \/ ParseLines \/ ParsePrefixed

SpecLines == InitLines /\ [][NextLines]_vars

-----------------------------------------------------------------------------
(* The parser on one-line responses of every length up to two characters   *)
(* past the longest line it accepts, bare or padded with spaces.           *)

Repeat(s, n) == Concat([i \in 1..n |-> s], 1, n)

\* the first n characters of the pair 'a|bbb...'
PipeLine(n) == SubSeq("a|" \o Repeat("b", n - 2), 1, n)

Paddings == {"", "  "}

LongestLine == MaxLineLength + 2

LengthLines == {pad \o PipeLine(n) \o pad : pad \in Paddings, n \in 0..LongestLine}

InitLength ==
    /\ pc = "response"
    /\ aiResponse \in LengthLines
    /\ trace = <<>>
    /\ parsedCards = <<>>
    /\ uniqueCards = <<>>
    /\ rerunCards = <<>>
    /\ text = ""
    /\ normalized = ""
    /\ renormalized = ""
    /\ NoLines /\ NoGeneration /\ NoDatabase

NextLength == Parse

SpecLength == InitLength /\ [][NextLength]_vars

-----------------------------------------------------------------------------
(* The end of the two generation actions, generateCardsWithAI and          *)
(* generateCardsWithCptainAI, from the parsed cards to the returned        *)
(* result.  The messages are named by their first words.                   *)

MaxCardCount == 5

Generators == {"generateCardsWithAI", "generateCardsWithCptainAI"}

\* the cards the parsed lists are drawn from: one back under three fronts,
\* and another card
YieldCards == { Card("a", "x"), Card("b", "x"), Card("c", "x"), Card("d", "y") }

\* percentageGenerated < 40 in generateCardsWithAI
LowYieldPercent == 40

\* percentageGenerated < 50 in generateCardsWithCptainAI
CptainLowYieldPercent == 50

\* (length / cardCount) * 100 < percent; the division of two integers up to
\* 100 and the product by 100 are exact enough for the comparison to come
\* out as in integers
PercentageBelow(length, count, percent) == length * 100 < percent * count

\* variant: the list is not cut to the requested count
SliceMut(cards, count) == cards

\* uniqueCards.slice(0, cardCount)
Slice(cards, count) == SubSeq(cards, 1, IF Len(cards) > count THEN count ELSE Len(cards))

\* return { success: false, error: 'No valid cards could be generated...' }
Failure(count) ==
    [success |-> FALSE, cards |-> <<>>, count |-> 0, requestedCount |-> count,
     warning |-> None, error |-> "No valid cards could be generated"]

\* return { success: true, data: { cards, count, requestedCount, warning } }
Success(cards, count, warning) ==
    [success |-> TRUE, cards |-> cards, count |-> Len(cards), requestedCount |-> count,
     warning |-> warning, error |-> None]

\* the warning of generateCardsWithAI
WarningOfAI(length, count) ==
    IF PercentageBelow(length, count, LowYieldPercent) THEN "Only generated"
    ELSE IF length = count THEN "Successfully generated exactly"
    ELSE IF length < count THEN "Generated instead of"
    ELSE None

\* the warning of generateCardsWithCptainAI
WarningOfCptain(length, count) ==
    IF length = count THEN "Successfully generated exactly"
    ELSE IF length < count
         THEN (IF PercentageBelow(length, count, CptainLowYieldPercent)
               THEN "Generated out of: try fewer cards"
               ELSE "Generated out of: you can generate more")
    ELSE "Generated"

WarningOf(gen, length, count) ==
    IF gen = "generateCardsWithAI" THEN WarningOfAI(length, count)
    ELSE WarningOfCptain(length, count)

InitYield ==
    /\ pc = "parsed"
    /\ generator \in Generators
    /\ cardCount \in 1..MaxCardCount
    /\ parsedCards \in SeqsUpTo(YieldCards, MaxCards)
    /\ result = None
    /\ uniqueCards = <<>>
    /\ aiResponse = ""
    /\ trace = <<>>
    /\ rerunCards = <<>>
    /\ text = ""
    /\ normalized = ""
    /\ renormalized = ""
    /\ NoRequest /\ NoLines /\ NoDatabase

\* if (parsedCards.length === 0) return { success: false, ... }
ReturnNoCards ==
    /\ pc = "parsed"
    /\ generator \in Generators
    /\ parsedCards = <<>>
    /\ result' = Failure(cardCount)
    /\ pc' = "returned"
    /\ UNCHANGED <<aiResponse, trace, parsedCards, uniqueCards, rerunCards,
                   text, normalized, renormalized, generator, cardCount,
                   reqVars, lineVars, dbVars>>

\* removeDuplicateCards, slice(0, cardCount), percentageGenerated, return
ReturnCards ==
    /\ pc = "parsed"
    /\ generator \in Generators
    /\ parsedCards # <<>>
    /\ uniqueCards' = removeDuplicateCards(parsedCards)
    /\ result' = Success(Slice(uniqueCards', cardCount), cardCount,
                         WarningOf(generator, Len(Slice(uniqueCards', cardCount)), cardCount))
    /\ pc' = "returned"
    /\ UNCHANGED <<aiResponse, trace, parsedCards, rerunCards,
                   text, normalized, renormalized, generator, cardCount,
                   reqVars, lineVars, dbVars>>

NextYield == ReturnNoCards \/ ReturnCards

SpecYield == InitYield /\ [][NextYield]_vars

-----------------------------------------------------------------------------
(* The deck queries of db/queries/decks on the tables decks and cards.     *)
(* A row of decks is [id, userId, name], a row of cards is [id, deckId];   *)
(* ids are serial.  What a query returns is written as a record: isNull,   *)
(* the deck rows and the card rows it carries.                             *)

MaxDecks == 1

MaxCardRows == 1

Users == {"alice", "bob"}

DeckIds == 1..MaxDecks

\* variant: the row is looked up by its id alone
DeckWhereMut(userId, deckId) == {deck \in decksTable : deck.id = deckId}

\* where(and(eq(decksTable.id, deckId), eq(decksTable.userId, userId)))
DeckWhere(userId, deckId) ==
    {deck \in decksTable : deck.id = deckId /\ deck.userId = userId}

\* where(eq(cardsTable.deckId, deckId))
CardsWhere(deckId) == {card \in cardsTable : card.deckId = deckId}

\* a call and its return value
Returned(op, userId, deckId, deck, cards) ==
    [op |-> op, userId |-> userId, deckId |-> deckId,
     isNull |-> deck = {}, deck |-> deck, cards |-> cards]

InitDecks ==
    /\ pc = "database"
    /\ NoDatabase
    /\ aiResponse = ""
    /\ trace = <<>>
    /\ parsedCards = <<>>
    /\ uniqueCards = <<>>
    /\ rerunCards = <<>>
    /\ text = ""
    /\ normalized = ""
    /\ renormalized = ""
    /\ NoLines /\ NoGeneration

\* createDeck: insert into decks, returning the new row
CreateDeck ==
    /\ pc = "database"
    /\ serials.decks < MaxDecks
    /\ \E userId \in Users :
           LET newDeck == [id |-> serials.decks + 1, userId |-> userId, name |-> "deck"]
           IN  /\ decksTable' = decksTable \cup {newDeck}
               /\ returned' = Returned("createDeck", userId, newDeck.id, {newDeck}, {})
    /\ serials' = [serials EXCEPT !.decks = @ + 1]
    /\ UNCHANGED <<pc, aiResponse, trace, parsedCards, uniqueCards, rerunCards,
                   text, normalized, renormalized, lineVars, genVars,
                   cardsTable, query>>

\* db.insert(cardsTable).values({ ...card, deckId: deck.id })
InsertCard ==
    /\ pc = "database"
    /\ serials.cards < MaxCardRows
    /\ \E deck \in decksTable :
           cardsTable' = cardsTable \cup {[id |-> serials.cards + 1, deckId |-> deck.id]}
    /\ serials' = [serials EXCEPT !.cards = @ + 1]
    /\ UNCHANGED <<pc, aiResponse, trace, parsedCards, uniqueCards, rerunCards,
                   text, normalized, renormalized, lineVars, genVars,
                   decksTable, returned, query>>

\* getUserDeck: return deck ?? null
GetUserDeck ==
    /\ pc = "database"
    /\ \E userId \in Users, deckId \in DeckIds :
           returned' = Returned("getUserDeck", userId, deckId, DeckWhere(userId, deckId), {})
    /\ UNCHANGED <<pc, aiResponse, trace, parsedCards, uniqueCards, rerunCards,
                   text, normalized, renormalized, lineVars, genVars,
                   decksTable, cardsTable, query, serials>>

\* getDeckCards and getUserDeckWithCards up to their second await:
\* const deck = await getUserDeck(userId, deckId); if (!deck) return null
VerifyOwner ==
    /\ pc = "database"
    /\ query.op = None
    /\ \E op \in {"getDeckCards", "getUserDeckWithCards"}, userId \in Users, deckId \in DeckIds :
           IF DeckWhere(userId, deckId) = {}
           THEN /\ returned' = Returned(op, userId, deckId, {}, {})
                /\ query' = query
           ELSE /\ query' = [op |-> op, userId |-> userId, deckId |-> deckId,
                             deck |-> DeckWhere(userId, deckId)]
                /\ returned' = returned
    /\ UNCHANGED <<pc, aiResponse, trace, parsedCards, uniqueCards, rerunCards,
                   text, normalized, renormalized, lineVars, genVars,
                   decksTable, cardsTable, serials>>

\* the rest of the two queries: the cards of the deck are read and returned,
\* alone or within the deck
SelectCards ==
    /\ pc = "database"
    /\ query.op # None
    /\ returned' = Returned(query.op, query.userId, query.deckId, query.deck,
                            CardsWhere(query.deckId))
    /\ query' = NoQuery
    /\ UNCHANGED <<pc, aiResponse, trace, parsedCards, uniqueCards, rerunCards,
                   text, normalized, renormalized, lineVars, genVars,
                   decksTable, cardsTable, serials>>

\* updateDeck: update decks set ...data where id and userId, returning
UpdateDeck ==
    /\ pc = "database"
    /\ \E userId \in Users, deckId \in DeckIds :
           LET updated == {[deck EXCEPT !.name = "renamed"] : deck \in DeckWhere(userId, deckId)}
           IN  /\ decksTable' = (decksTable \ DeckWhere(userId, deckId)) \cup updated
               /\ returned' = Returned("updateDeck", userId, deckId, updated, {})
    /\ UNCHANGED <<pc, aiResponse, trace, parsedCards, uniqueCards, rerunCards,
                   text, normalized, renormalized, lineVars, genVars,
                   cardsTable, query, serials>>

\* deleteDeck: delete from decks where id and userId, returning; the cards
\* of a deleted deck go with it (onDelete: cascade)
DeleteDeck ==
    /\ pc = "database"
    /\ \E userId \in Users, deckId \in DeckIds :
           LET deleted == DeckWhere(userId, deckId)
           IN  /\ decksTable' = decksTable \ deleted
               /\ cardsTable' = {card \in cardsTable :
                                    \A deck \in deleted : card.deckId # deck.id}
               /\ returned' = Returned("deleteDeck", userId, deckId, deleted, {})
    /\ UNCHANGED <<pc, aiResponse, trace, parsedCards, uniqueCards, rerunCards,
                   text, normalized, renormalized, lineVars, genVars,
                   query, serials>>

NextDecks ==
    \/ CreateDeck \/ InsertCard \/ GetUserDeck \/ VerifyOwner \/ SelectCards
    \/ UpdateDeck \/ DeleteDeck

SpecDecks == InitDecks /\ [][NextDecks]_vars

-----------------------------------------------------------------------------
(* generateCardsWithAI from the answer of the model to its result: the     *)
(* parser, the lenient parsing of a response the parser got nothing from,  *)
(* and the end of the action                                               *)

\* const metaWords = [...] of the lenient parsing
lenientMetaWords ==
    { "woorden", "woord", "tekst", "text", "word", "words",
      "translation", "vertaling", "vertalingen" }

\* for (const sep of ['|', ':', '-', '=', '\t'])
lenientSeparators == << "|", ":", "-", "=", "\t" >>

\* cleaned.length < 5
LenientMinLength == 5

\* replace(/^\d+[\.)]\s*/, '')
StripNumber(s) ==
    IF /\ SkipWhile(s, 1, DigitSet) > 1
       /\ SkipWhile(s, 1, DigitSet) <= Len(s)
       /\ CharAt(s, SkipWhile(s, 1, DigitSet)) \in {".", ")"}
    THEN SubSeq(s, SkipWhile(s, SkipWhile(s, 1, DigitSet) + 1, Whitespace), Len(s))
    ELSE s

\* front = cleaned.substring(0, idx).trim().replace(...), then
\* front.replace(/\s*\([^)]*\)/g, '').trim()
LenientFront(cleaned, idx) ==
    Trim(RemoveParens(StripNumber(Trim(SubSeq(cleaned, 1, idx - 1)))))

\* back = cleaned.substring(idx + 1).trim(), then
\* back.replace(/\s*\([^)]*\)/g, '').trim()
LenientBack(cleaned, idx) ==
    Trim(RemoveParens(Trim(SubSeq(cleaned, idx + 1, Len(cleaned)))))

\* front && back && front.length > 0 && back.length > 0 && !isMetaWord && front !== back
LenientAccept(front, back) ==
    /\ front # "" /\ back # ""
    /\ front \notin lenientMetaWords /\ back \notin lenientMetaWords
    /\ front # back

\* the loop over the separators from the k-th on: the card of the first
\* separator that the line includes and that gives an accepted pair
RECURSIVE LenientTry(_, _)
LenientTry(cleaned, k) ==
    IF k > Len(lenientSeparators) THEN <<>>
    ELSE IF /\ Includes(cleaned, lenientSeparators[k])
            /\ LenientAccept(LenientFront(cleaned, indexOf(cleaned, lenientSeparators[k])),
                             LenientBack(cleaned, indexOf(cleaned, lenientSeparators[k])))
         THEN << Card(LenientFront(cleaned, indexOf(cleaned, lenientSeparators[k])),
                      LenientBack(cleaned, indexOf(cleaned, lenientSeparators[k]))) >>
         ELSE LenientTry(cleaned, k + 1)

\* const cleaned = line.trim().toLowerCase(); if (!cleaned || cleaned.length < 5) continue
LenientLine(cleaned) ==
    IF Len(cleaned) < LenientMinLength THEN <<>> ELSE LenientTry(cleaned, 1)

\* for (const line of lines), from the i-th line on
RECURSIVE LenientLines(_, _)
LenientLines(lines, i) ==
    IF i > Len(lines) THEN <<>>
    ELSE LenientLine(toLowerCase(Trim(lines[i]))) \o LenientLines(lines, i + 1)

\* the cards the lenient parsing pushes for a response
lenientParse(generatedText) == LenientLines(SplitLines(generatedText), 1)

\* variant: the lenient parsing runs on every response
parsingFailedMut(cards) == TRUE

\* if (parsedCards.length === 0)
parsingFailed(cards) == Len(cards) = 0

\* the lines of the responses: lines the parser takes, lines it drops and
\* the lenient parsing takes, and lines both drop
FallbackLines ==
    { "ab|cd", "a|b", "ab:cd", "term:abc", "front|back", "ab|ab!",
      "word:abc", "(x)|abcd", "abcde", "1. term=x" }

FallbackResponses ==
    {""} \cup { JoinLines(lines) : lines \in SeqsUpTo(FallbackLines, MaxLines) \ {<<>>} }

InitFallback ==
    /\ pc = "generated"
    /\ aiResponse \in FallbackResponses
    /\ trace = <<>>
    /\ parsedCards = <<>>
    /\ uniqueCards = <<>>
    /\ rerunCards = <<>>
    /\ text = ""
    /\ normalized = ""
    /\ renormalized = ""
    /\ generator = "generateCardsWithAI"
    /\ cardCount \in {1, MaxCardCount}
    /\ result = None
    /\ NoRequest /\ NoLines /\ NoDatabase

\* let parsedCards = parseAndNormalizeFlashcards(generatedText) and the
\* block if (parsedCards.length === 0) { ... parsedCards.push(...) ... }
ParseGenerated ==
    /\ pc = "generated"
    /\ generator = "generateCardsWithAI"
    /\ trace' = ParseTrace(aiResponse)
    /\ parsedCards' = IF parsingFailed(PushedCards(trace', 1))
                      THEN PushedCards(trace', 1) \o lenientParse(aiResponse)
                      ELSE PushedCards(trace', 1)
    /\ pc' = "parsed"
    /\ UNCHANGED <<aiResponse, uniqueCards, rerunCards, text, normalized, renormalized,
                   lineVars, genVars, dbVars>>

NextFallback == ParseGenerated \/ ReturnNoCards \/ ReturnCards

SpecFallback == InitFallback /\ [][NextFallback]_vars

-----------------------------------------------------------------------------
(* The two generation actions from their call to the answer of the model:  *)
(* the checks of the caller and of the inputs, the token of                *)
(* getCptainAuthToken, the abort timer and the requests to the model       *)

\* the variables of the text pipeline, of the line experiments and of the
\* database
pipelineVars == <<aiResponse, trace, parsedCards, uniqueCards, rerunCards,
                  text, normalized, renormalized, lineVars, dbVars>>

\* description.trim().length < 3
MinDescriptionLength == 3

\* cardCount < 1 || cardCount > 100
MinCount == 1
MaxCount == 100

\* the length of requestBodyFormats
NumFormats == 5

\* return { success: false, error }
Refused(error) == [Failure(0) EXCEPT !.error = error]

\* variant: a token that is missing counts as a token
hasTokenMut(token) == TRUE

\* if (token), authResult.token || null, if (authToken), if (!authToken)
hasToken(token) == token # None /\ token # ""

\* catch (error) of generateCardsWithCptainAI
CatchCptain(error) ==
    IF Includes(error.message, "fetch failed") \/ Includes(error.message, "ECONNREFUSED")
    THEN "Could not connect to Cptain API. Please check your internet connection and API URL configuration."
    ELSE IF error.name = "AbortError"
    THEN "API request timed out. Please try again with fewer cards or a simpler description."
    ELSE "Cptain AI generation failed: " \o error.message

\* catch (error) of generateCardsWithAI
CatchAI(error) ==
    IF Includes(error.message, "fetch failed") \/ Includes(error.message, "ECONNREFUSED")
    THEN "Could not connect to Ollama. Please make sure Ollama is running and Gemma3 model is installed. Run: ollama pull gemma3:270m"
    ELSE IF Includes(error.message, "model") \/ Includes(error.message, "not found")
    THEN "Gemma3 model not found. Please install it by running: ollama pull gemma3:270m"
    ELSE IF error.name = "AbortError"
    THEN "AI generation timed out. The model is taking too long to respond. Try reducing the number of cards or try again later."
    ELSE "Local AI generation failed: " \o error.message

\* the descriptions and the card counts the actions are called with
Descriptions == {"", "  ", "ab", " ab  ", "abc", "dutch food"}

CardCounts == {MinCount - 1, MinCount, MaxCardCount, MaxCount, MaxCount + 1}

InitGenerate ==
    /\ pc = "called"
    /\ generator \in Generators
    /\ sessionUserId \in {None, "user_1"}
    /\ description \in Descriptions
    /\ cardCount \in CardCounts
    /\ credentials \in BOOLEAN
    /\ authToken = None
    /\ requests = <<>>
    /\ timer = None
    /\ attempt = 0
    /\ lastError = ""
    /\ result = None
    /\ aiResponse = ""
    /\ trace = <<>>
    /\ parsedCards = <<>>
    /\ uniqueCards = <<>>
    /\ rerunCards = <<>>
    /\ text = ""
    /\ normalized = ""
    /\ renormalized = ""
    /\ NoLines /\ NoDatabase

\* const { userId } = await auth(); if (!userId) return ...
Authenticate ==
    /\ pc = "called"
    /\ generator \in Generators
    /\ IF sessionUserId = None
       THEN result' = Refused("Unauthorized") /\ pc' = "returned"
       ELSE pc' = "authenticated" /\ UNCHANGED result
    /\ UNCHANGED <<generator, cardCount, reqVars, pipelineVars>>

\* variant: the card count is checked before the description
ValidateMut ==
    /\ pc = "authenticated"
    /\ IF cardCount < MinCount \/ cardCount > MaxCount
       THEN result' = Refused("Card count must be between 1 and 100") /\ pc' = "returned"
       ELSE IF description = "" \/ Len(Trim(description)) < MinDescriptionLength
       THEN result' = Refused("Description must be at least 3 characters") /\ pc' = "returned"
       ELSE pc' = "validated" /\ UNCHANGED result
    /\ UNCHANGED <<generator, cardCount, reqVars, pipelineVars>>

\* if (!description || description.trim().length < 3) return ...
\* if (cardCount < 1 || cardCount > 100) return ...
Validate ==
    /\ pc = "authenticated"
    /\ IF description = "" \/ Len(Trim(description)) < MinDescriptionLength
       THEN result' = Refused("Description must be at least 3 characters") /\ pc' = "returned"
       ELSE IF cardCount < MinCount \/ cardCount > MaxCount
       THEN result' = Refused("Card count must be between 1 and 100") /\ pc' = "returned"
       ELSE pc' = "validated" /\ UNCHANGED result
    /\ UNCHANGED <<generator, cardCount, reqVars, pipelineVars>>

\* const authResult = await getCptainAuthToken() and the test of its token.
\* Without client id or secret no request is sent; otherwise the token
\* endpoint answers with a token, with an empty access_token, without
\* access_token, with a status that is not OK, or the fetch throws.
GetToken ==
    /\ pc = "validated"
    /\ generator = "generateCardsWithCptainAI"
    /\ \E outcome \in {"token", "emptyToken", "noToken", "notOk", "throws"} :
           LET token == IF credentials /\ outcome = "token" THEN "access-token"
                        ELSE IF credentials /\ outcome = "emptyToken" THEN ""
                        ELSE None
           IN  /\ requests' = IF credentials THEN Append(requests, "auth") ELSE requests
               /\ IF hasToken(token)
                  THEN authToken' = token /\ pc' = "authorized" /\ UNCHANGED result
                  ELSE /\ authToken' = None
                       /\ result' = Refused("Authentication required but failed")
                       /\ pc' = "returned"
    /\ UNCHANGED <<generator, cardCount, sessionUserId, description, credentials,
                   timer, attempt, lastError, pipelineVars>>

\* const timeout = setTimeout(() => controller.abort(), ...), in
\* generateCardsWithCptainAI if (!authToken) throw ..., and the first fetch
StartRequest ==
    /\ pc = (IF generator = "generateCardsWithCptainAI" THEN "authorized" ELSE "validated")
    /\ generator \in Generators
    /\ timer' = "armed"
    /\ IF generator = "generateCardsWithCptainAI" /\ ~hasToken(authToken)
       THEN /\ result' = Refused(CatchCptain(
                   [name |-> "Error",
                    message |-> "Authentication token is required but was not obtained. Please check your credentials."]))
            /\ pc' = "returned"
            /\ UNCHANGED <<requests, attempt>>
       ELSE /\ requests' = Append(requests, "model")
            /\ attempt' = 1
            /\ pc' = "inflight"
            /\ UNCHANGED result
    /\ UNCHANGED <<generator, cardCount, sessionUserId, description, credentials,
                   authToken, lastError, pipelineVars>>

\* the callback of setTimeout: controller.abort()
TimerFires ==
    /\ pc = "inflight"
    /\ timer = "armed"
    /\ timer' = "fired"
    /\ UNCHANGED <<pc, generator, cardCount, result, sessionUserId, description,
                   credentials, authToken, requests, attempt, lastError, pipelineVars>>

\* the fetch of generateCardsWithAI settles: .finally(() => clearTimeout(timeout)),
\* then the response is read, or the error is thrown to the catch of the action
SettleOllama ==
    /\ pc = "inflight"
    /\ generator = "generateCardsWithAI"
    /\ timer' = IF timer = "armed" THEN "cleared" ELSE timer
    /\ \E outcome \in {"ok", "notOk", "rejected"} :
           IF timer = "fired"
           THEN /\ result' = Refused(CatchAI([name |-> "AbortError",
                                              message |-> "This operation was aborted"]))
                /\ pc' = "returned"
           ELSE IF outcome = "ok"
           THEN pc' = "generated" /\ UNCHANGED result
           ELSE IF outcome = "notOk"
           THEN /\ result' = Refused(CatchAI([name |-> "Error",
                                              message |-> "Ollama request failed: 500 - "]))
                /\ pc' = "returned"
           ELSE /\ result' = Refused(CatchAI([name |-> "TypeError", message |-> "fetch failed"]))
                /\ pc' = "returned"
    /\ UNCHANGED <<generator, cardCount, sessionUserId, description, credentials,
                   authToken, requests, attempt, lastError, pipelineVars>>

\* one attempt of the loop over requestBodyFormats settles:
\* .finally(() => clearTimeout(timeout)); an OK response ends the loop; a
\* status 400 or 404 and an error caught by catch (endpointError) go on to
\* the fetch of the next format; another status breaks the loop; after the
\* loop if (!data) throw ..., which the catch of the action answers
SettleCptain ==
    /\ pc = "inflight"
    /\ generator = "generateCardsWithCptainAI"
    /\ timer' = IF timer = "armed" THEN "cleared" ELSE timer
    /\ \E outcome \in {"ok", "badRequest", "serverError", "rejected"} :
           LET settled == IF timer = "fired" THEN "aborted" ELSE outcome
               error == CASE settled = "aborted" -> "This operation was aborted"
                          [] settled = "rejected" -> "fetch failed"
                          [] settled = "badRequest" -> "400 - "
                          [] settled = "serverError" -> "500 - "
                          [] OTHER -> lastError
           IN  IF settled = "ok"
               THEN pc' = "generated" /\ UNCHANGED <<result, requests, attempt, lastError>>
               ELSE IF settled # "serverError" /\ attempt < NumFormats
               THEN /\ requests' = Append(requests, "model")
                    /\ attempt' = attempt + 1
                    /\ lastError' = error
                    /\ pc' = "inflight"
                    /\ UNCHANGED result
               ELSE /\ lastError' = error
                    /\ result' = Refused(CatchCptain(
                           [name |-> "Error",
                            message |-> "Cptain API request failed on all endpoints and auth methods. Last error: "
                                        \o error \o ". Check the console for detailed logs."]))
                    /\ pc' = "returned"
                    /\ UNCHANGED <<requests, attempt>>
    /\ UNCHANGED <<generator, cardCount, sessionUserId, description, credentials,
                   authToken, pipelineVars>>

NextGenerate ==
    \/ Authenticate \/ Validate \/ GetToken \/ StartRequest
    \/ TimerFires \/ SettleOllama \/ SettleCptain

SpecGenerate == InitGenerate /\ [][NextGenerate]_vars

-----------------------------------------------------------------------------
(* All callers together *)

Init ==
    \/ InitDedup \/ InitParse \/ InitSeparators \/ InitNorm
    \/ InitLines \/ InitLength \/ InitYield \/ InitDecks
    \/ InitFallback \/ InitGenerate

Next ==
    \/ Dedup \/ Parse \/ Rerun \/ Normalize \/ Renormalize
    \/ ParseLines \/ ParsePrefixed
    \/ ReturnNoCards \/ ReturnCards \/ ParseGenerated
    \/ CreateDeck \/ InsertCard \/ GetUserDeck \/ VerifyOwner \/ SelectCards
    \/ UpdateDeck \/ DeleteDeck
    \/ Authenticate \/ Validate \/ GetToken \/ StartRequest
    \/ TimerFires \/ SettleOllama \/ SettleCptain

Spec == Init /\ [][Next]_vars

-----------------------------------------------------------------------------
(* Properties of normalizeCardText *)

\* C5: normalizeCardText is idempotent: normalizing a normalized text gives
\* the same text.
C5_Idempotent ==
    pc = "renormalized" => renormalized = normalized

-----------------------------------------------------------------------------
(* Properties of parseAndNormalizeFlashcards *)

CardSet(cards) == {cards[i] : i \in 1..Len(cards)}

\* C6: round-trip stability: the cards that survive parsing and
\* deduplication, written as 'front | back' lines and run through the same
\* two steps again, come back as the same set of cards.
C6_RoundTrip ==
    pc = "rerun" => CardSet(rerunCards) = CardSet(uniqueCards)

\* C7: every card returned by parseAndNormalizeFlashcards has a non-empty
\* front, a non-empty back, and a front that differs from the back when
\* compared case-insensitively.
C7_CardsWellFormed ==
    pc \in {"parsed", "deduped", "rerun"} =>
        \A i \in 1..Len(parsedCards) :
            /\ parsedCards[i].front # ""
            /\ parsedCards[i].back # ""
            /\ toLowerCase(parsedCards[i].front) # toLowerCase(parsedCards[i].back)

\* a card is returned whose back the normalizer had to change
C7_Witness ==
    /\ pc = "parsed"
    /\ Len(parsedCards) = 1
    /\ trace[1].parts[2] # parsedCards[1].back
    /\ trace[1].parts[1] = parsedCards[1].front

\* the iteration split its line at its first '|'
SplitAtFirstPipe(t) ==
    LET i == indexOf(t.trimmedLine, "|")
    IN  /\ t.sep = "|"
        /\ t.parts = << Trim(SubSeq(t.trimmedLine, 1, i - 1)),
                        Trim(SubSeq(t.trimmedLine, i + 1, Len(t.trimmedLine))) >>

\* the trimmed texts before and after the first '|' of the line are both
\* non-empty and differ
PipeHalvesValid(t) ==
    LET i == indexOf(t.trimmedLine, "|")
        before == Trim(SubSeq(t.trimmedLine, 1, i - 1))
        after == Trim(SubSeq(t.trimmedLine, i + 1, Len(t.trimmedLine)))
    IN  before # "" /\ after # "" /\ before # after

\* the iteration reached the splitter with a line that holds '|' and ':'
HasPipeAndColon(t) ==
    /\ ~t.skipped
    /\ Includes(t.trimmedLine, "|")
    /\ Includes(t.trimmedLine, ":")

\* C8 as stated: a line that contains both '|' and ':' is split at the '|',
\* front the text before the first '|' and back the text after it, never at
\* the ':'.
C8_PipeBeforeColon ==
    pc = "parsed" =>
        \A n \in 1..Len(trace) : HasPipeAndColon(trace[n]) => SplitAtFirstPipe(trace[n])

\* C8 amended: a line that contains both '|' and ':' is split at its first
\* '|' when the trimmed texts before and after that '|' are both non-empty and
\* differ; when they are not, it is not split at the '|' and a later
\* separator of the list, the ':' included, is tried.
C8_PipeBeforeColonIfValid ==
    pc = "parsed" =>
        \A n \in 1..Len(trace) :
            HasPipeAndColon(trace[n]) =>
                IF PipeHalvesValid(trace[n])
                THEN SplitAtFirstPipe(trace[n])
                ELSE trace[n].sep # "|"

\* a line with ':' before '|' is split at the '|'
C8_Witness ==
    /\ pc = "parsed"
    /\ Len(trace) = 1
    /\ HasPipeAndColon(trace[1])
    /\ indexOf(trace[1].trimmedLine, ":") < indexOf(trace[1].trimmedLine, "|")
    /\ SplitAtFirstPipe(trace[1])
    /\ Len(parsedCards) = 1

\* the indices at which sep occurs in s
OccurrencesOf(s, sep) ==
    {j \in 1..(Len(s) - Len(sep) + 1) : SubSeq(s, j, j + Len(sep) - 1) = sep}

\* C10: when a separator is chosen for a line, the split point is its first
\* occurrence in the cleaned line: the front is the text before it, the back
\* the text after it, later occurrences included.
C10_FirstOccurrence ==
    pc = "parsed" =>
        \A n \in 1..Len(trace) :
            LET t == trace[n]
                O == OccurrencesOf(t.trimmedLine, t.sep)
            IN  t.sep # "" =>
                    /\ O # {}
                    /\ t.splitIndex = Min(O)
                    /\ t.parts[1] = Trim(SubSeq(t.trimmedLine, 1, Min(O) - 1))
                    /\ t.parts[2] = Trim(SubSeq(t.trimmedLine, Min(O) + Len(t.sep),
                                                Len(t.trimmedLine)))

\* the chosen separator occurs twice and its second occurrence is in the back
C10_Witness ==
    /\ pc = "parsed"
    /\ Len(trace) = 1
    /\ trace[1].sep = ":"
    /\ Cardinality(OccurrencesOf(trace[1].trimmedLine, ":")) = 2
    /\ Includes(trace[1].parts[2], ":")
    /\ Len(parsedCards) = 1

\* C9: every delimiter of the list works as a separator: a line made of a
\* plain word f, a delimiter d and another plain word b yields exactly the
\* one card (f, b).
C9_EverySeparatorWorks ==
    pc = "parsed" =>
        \A f \in PlainWords, b \in PlainWords, k \in 1..Len(separators) :
            (f # b /\ aiResponse = f \o separators[k] \o b)
                => parsedCards = <<Card(f, b)>>

-----------------------------------------------------------------------------
(* Properties of the parser on sample lines *)

\* the response is one line
OneLine(response) == ~Includes(response, "\n")

\* C11: an enumeration prefix does not change the result: for every line L
\* the parser returns for L with '1. ', '1) ' or 'a. ' written before it the
\* cards it returns for L alone.
C11_PrefixChangesNothing ==
    (pc = "prefixed" /\ OneLine(aiResponse)) => prefixedCards = parsedCards

RECURSIVE Flatten(_)
Flatten(lists) == IF lists = <<>> THEN <<>> ELSE Head(lists) \o Flatten(Tail(lists))

\* C12: lines are parsed independently: the cards of a response are the
\* cards of its lines, each parsed alone, one after the other in line order;
\* a rejected header line adds nothing and changes no later line's card.
C12_LinesIndependent ==
    pc \in {"lines", "prefixed"} => parsedCards = Flatten(lineCards)

\* a header line followed by a line that gives a card
C12_Witness ==
    /\ pc = "lines"
    /\ aiResponse = "Here are your flashcards:\napple | appel"
    /\ lineCards = << <<>>, <<Card("apple", "appel")>> >>
    /\ parsedCards = <<Card("apple", "appel")>>

\* the iteration split its line and normalized two distinct non-empty sides
ReachesMetaFilter(t) ==
    t.sep # "" /\ t.front # "" /\ t.back # "" /\ t.front # t.back

\* the side is, as a whole and whatever its case, one of the meta-words
ExactMetaWord(side) == \E word \in metaWords : toLowerCase(side) = word

IsCardList(cards) ==
    /\ DOMAIN cards = 1..Len(cards)
    /\ \A i \in 1..Len(cards) : DOMAIN cards[i] = {"front", "back"}

-----------------------------------------------------------------------------
(* Properties of the length gate *)

\* C15: a line whose cleaned text is empty, shorter than 3 characters or
\* longer than 100 characters gives no card, while the length gate lets a
\* well-formed line of 3 characters ('a|b') up to 100 characters through,
\* the two ends included.
C15_LengthGate ==
    pc = "parsed" =>
        /\ \A i \in 1..Len(trace) :
               LET n == Len(trace[i].trimmedLine)
               IN  /\ (n < 3 \/ n > 100) => (trace[i].skipped /\ ~trace[i].pushed)
                   /\ (n >= 3 /\ n <= 100) =>
                          (~trace[i].skipped /\ trace[i].pushed
                           /\ Card(trace[i].front, trace[i].back) = Card("a", Repeat("b", n - 2)))
        /\ (\A i \in 1..Len(trace) : Len(trace[i].trimmedLine) \notin 3..100)
               => parsedCards = <<>>

\* a padded line whose cleaned text has exactly 100 characters gave its card
C15_Witness ==
    /\ pc = "parsed"
    /\ Len(aiResponse) = 104
    /\ Len(trace[1].trimmedLine) = 100
    /\ parsedCards = <<Card("a", Repeat("b", 98))>>

-----------------------------------------------------------------------------
(* Properties of the line classifier *)

\* the text is not empty and none of its characters is a letter
NoLetters(s) ==
    s # "" /\ \A i \in 1..Len(s) : CharAt(s, i) \notin UpperSet \cup LowerSet

\* C16: a line made of digits, whitespace and punctuation only, with no
\* letter in it, is rejected by the line classifier and gives no card.
C16_NoLettersNoCard ==
    \A i \in 1..Len(trace) :
        NoLetters(trace[i].trimmedLine) => (trace[i].skipped /\ ~trace[i].pushed)

-----------------------------------------------------------------------------
(* Properties of the sides of the returned cards *)

\* the text is its own lowercase, has no whitespace at either end and no
\* two whitespace characters in a row, and is made of letters, digits,
\* spaces and the punctuation of the allow-list without the markdown markers
CleanedForm(s) ==
    /\ \A i \in 1..Len(s) : CharAt(s, i) \notin UpperSet
    /\ s # "" => (CharAt(s, 1) \notin Whitespace /\ CharAt(s, Len(s)) \notin Whitespace)
    /\ \A i \in 1..(Len(s) - 1) :
           ~(CharAt(s, i) \in Whitespace /\ CharAt(s, i + 1) \in Whitespace)
    /\ \A i \in 1..Len(s) :
           CharAt(s, i) \in LowerSet \cup DigitSet \cup {" "} \cup AllowedPunct
    /\ \A i \in 1..Len(s) : CharAt(s, i) \notin {"*", "_", "~", "#"}

\* C17: every front and every back the parser returns is in cleaned form:
\* lowercase, trimmed, whitespace runs collapsed to single spaces, only
\* letters, digits and allow-listed punctuation, no markdown marker.
C17_SidesCleaned ==
    \A i \in 1..Len(parsedCards) :
        CleanedForm(parsedCards[i].front) /\ CleanedForm(parsedCards[i].back)

\* markdown, capitals, characters off the allow-list and a run of spaces
\* went in, two cleaned cards came out
C17_Witness ==
    /\ pc = "parsed"
    /\ aiResponse = "**Kaas** | Cheese\nkeyword : <sleutel>  woord"
    /\ parsedCards = <<Card("kaas", "cheese"), Card("keyword", "sleutel woord")>>

-----------------------------------------------------------------------------
(* Properties of the generation actions *)

\* the messages that tell of a low yield
LowYieldWarnings == {"Only generated", "Generated out of: try fewer cards"}

\* the success message and the plain shortfall messages
PlainMessages ==
    {"Successfully generated exactly", "Generated instead of",
     "Generated out of: you can generate more"}

\* C18: in both generation actions, when at least one card was parsed the
\* result is a success with the accepted cards, the low-yield warning is
\* given exactly when accepted / requested is below 40 percent, and at 40
\* percent or above the message is the success or the plain shortfall one.
C18_WarningBelowForty ==
    (pc = "returned" /\ parsedCards # <<>>) =>
        /\ result.success
        /\ result.cards = Slice(removeDuplicateCards(parsedCards), cardCount)
        /\ result.warning \in LowYieldWarnings <=> Len(result.cards) * 100 < 40 * cardCount
        /\ Len(result.cards) * 100 >= 40 * cardCount => result.warning \in PlainMessages

-----------------------------------------------------------------------------
(* Properties of the deck queries *)

OwnershipQueries ==
    {"getUserDeck", "getDeckCards", "getUserDeckWithCards", "updateDeck", "deleteDeck"}

\* the call was made for a deck that exists and belongs to another user
CalledByNonOwner(call) ==
    /\ call.op \in OwnershipQueries
    /\ \E deck \in decksTable : deck.id = call.deckId /\ deck.userId # call.userId

\* C19: every deck query enforces ownership: getUserDeck, getDeckCards,
\* getUserDeckWithCards, updateDeck and deleteDeck, called with the userId of
\* someone who does not own the deck, return null, hand out no card of the
\* deck, and leave the deck and its cards as they were.
C19_OwnerOnly ==
    [][(returned' # returned /\ CalledByNonOwner(returned')) =>
          /\ returned'.isNull
          /\ returned'.deck = {} /\ returned'.cards = {}
          /\ decksTable' = decksTable
          /\ cardsTable' = cardsTable]_vars

\* bob has asked to delete the deck of alice; the deck and its card are there
C19_Witness ==
    /\ returned.op = "deleteDeck" /\ returned.userId = "bob" /\ returned.isNull
    /\ \E deck \in decksTable :
           /\ deck.id = returned.deckId /\ deck.userId = "alice"
           /\ CardsWhere(deck.id) # {}

-----------------------------------------------------------------------------
(* Properties of normalizeCardText on the inputs of its tests *)

\* C20: normalizeCardText removes a trailing run of exclamation marks: no
\* normalized text ends with one, and 'special!!!' normalizes to 'special'.
C20_TrailingExclamationsRemoved ==
    pc \in {"normalized", "renormalized"} =>
        /\ normalized = "" \/ CharAt(normalized, Len(normalized)) # "!"
        /\ text = "special!!!" => normalized = "special"

-----------------------------------------------------------------------------
(* Properties of the generation actions *)

\* C21: in generateCardsWithAI the cards handed to removeDuplicateCards are
\* the cards of the parser when it returned at least one, and the cards of
\* the lenient parsing only when the parser returned none: never cards of
\* both.
C21_OneParser ==
    (pc \in {"parsed", "returned"} /\ trace # <<>>) =>
        /\ PushedCards(trace, 1) # <<>> => parsedCards = PushedCards(trace, 1)
        /\ PushedCards(trace, 1) = <<>> => parsedCards = lenientParse(aiResponse)
        /\ (pc = "returned" /\ result.success) =>
               uniqueCards = removeDuplicateCards(parsedCards)

\* the parser returned nothing and the lenient parsing cards; the action
\* has returned them
C21_Witness ==
    /\ pc = "returned"
    /\ trace # <<>>
    /\ PushedCards(trace, 1) = <<>>
    /\ parsedCards # <<>>

\* C22: in a success result count is the length of cards and is at most
\* requestedCount, and cards is the list returned by removeDuplicateCards cut
\* after its first requestedCount elements, in the same order.
C22_CountAndPrefix ==
    (pc = "returned" /\ result.success) =>
        LET unique == removeDuplicateCards(parsedCards)
            kept == IF cardCount < Len(unique) THEN cardCount ELSE Len(unique)
        IN  /\ result.count = Len(result.cards)
            /\ result.requestedCount = cardCount
            /\ result.count <= result.requestedCount
            /\ Len(result.cards) = kept
            /\ \A i \in 1..kept : result.cards[i] = unique[i]

\* more cards survived than were asked for, and the result is a success
C22_Witness ==
    /\ pc = "returned"
    /\ result.success
    /\ Len(uniqueCards) > cardCount
    /\ result.count = cardCount

\* C27: a success result holds at least one card.
C27_SuccessHasCards ==
    (pc = "returned" /\ result.success) => Len(result.cards) >= 1

\* C28: a card whose back is not repeated beyond the ceiling, and that
\* differs in front or in back (case-insensitively) from every card before
\* it, is in the list removeDuplicateCards returns.
C28_DifferentCardsKept ==
    pc = "deduped" =>
        \A j \in 1..Len(parsedCards) :
            (/\ Cardinality(WithBackOf(parsedCards, parsedCards[j])) <= MaxBackCount
             /\ \A i \in 1..(j - 1) : ~SamePair(parsedCards[i], parsedCards[j]))
            => Survives(parsedCards[j])

\* the description has fewer than 3 characters once trimmed
TooShort(d) == Len(Trim(d)) < 3

\* the card count is not one of 1 to 100
OutOfRange(c) == c \notin 1..100

\* a request has gone to the model endpoint
ModelRequested == \E i \in 1..Len(requests) : requests[i] = "model"

\* the action has returned { success: false } with this error and has sent
\* no request
RefusedUnsent(error) ==
    /\ pc = "returned"
    /\ ~result.success
    /\ result.error = error
    /\ requests = <<>>

\* C23: both generation actions check the caller, then the description,
\* then the card count; the first check that fails decides the error of the
\* { success: false } that is returned, and no request has been sent to an
\* authentication or model endpoint by then.
C23_ChecksInOrder ==
    /\ (pc # "called" /\ sessionUserId = None) => RefusedUnsent("Unauthorized")
    /\ (pc \notin {"called", "authenticated"} /\ sessionUserId # None) =>
           /\ TooShort(description) =>
                  RefusedUnsent("Description must be at least 3 characters")
           /\ (~TooShort(description) /\ OutOfRange(cardCount)) =>
                  RefusedUnsent("Card count must be between 1 and 100")
    /\ (requests # <<>>) =>
           sessionUserId # None /\ ~TooShort(description) /\ ~OutOfRange(cardCount)

\* a signed-in caller gave a description and a card count that both fail,
\* and the action has returned
C23_Witness ==
    /\ pc = "returned"
    /\ sessionUserId # None
    /\ TooShort(description)
    /\ OutOfRange(cardCount)
    /\ result.error = "Description must be at least 3 characters"

C25_TimedOutMessage ==
    (pc = "returned" /\ timer = "fired") =>
        /\ ~result.success
        /\ result.error =
               (IF generator = "generateCardsWithAI"
                THEN "AI generation timed out. The model is taking too long to respond. Try reducing the number of cards or try again later."
                ELSE "API request timed out. Please try again with fewer cards or a simpler description.")

\* C26: while an attempt of the loop over the request body formats of
\* generateCardsWithCptainAI is in flight, the abort timer is armed or has
\* fired.
C26_AttemptsCovered ==
    (generator = "generateCardsWithCptainAI" /\ pc = "inflight") =>
        timer \in {"armed", "fired"}

====
